---- MODULE Spec2Model ----
(***************************************************************************)
(* Model of the two ranking engines of dotfiles-coach:                     *)
(*   - analyzeFrequency (src/analyzers/frequency.ts), the pattern miner    *)
(*   - searchHistory    (src/search/scorer.ts), the relevance search       *)
(*                                                                         *)
(* Strings are sequences of one-character strings.  A JavaScript Map is a  *)
(* sequence of records in insertion order (Map iteration order).  A Date   *)
(* is a whole number of days since the epoch; an absent (undefined)        *)
(* timestamp is NoTime.  Sub-scores are fixed-point numbers in units of    *)
(* 1/UNIT.                                                                 *)
(***************************************************************************)
EXTENDS Integers, Sequences, FiniteSets, TLC

\* ---------------------------------------------------------------- bounds
MaxEntries == 3
LateDay == 11
MaxMinFreq == 2
MaxTop == 2
MaxThreshold == 1
MaxSeqLen == 2
MaxResultsBound == 2
\* The longer histories of SessionSpec: their length, and the day of their
\* later timestamps.
MaxSessionEntries == 5
StaleDay == 19
\* The days over which recencyScore is compared.
MaxDay == 32
MaxInputLen == 4
MaxParsed == 4

\* ---------------------------------------------------------------- strings
NoTime == -1

\* An option whose key is passed with the value undefined.
Undefined == -1

SEP == <<" ", "&", "&", " ">>

cAB == <<"a", "b">>
cABC == <<"a", "b", "c">>
cAB_C == <<"a", "b", " ", "c">>

Commands == {cAB, cABC, cAB_C}

\* A raw command that reads like two commands joined by the separator.
cAB_AB == cAB \o SEP \o cAB

SessionCommands == {cAB, cAB_AB}

SessionTimes == {0, StaleDay}

\* Queries: empty, blank, punctuation only, a full match, its upper-case form,
\* a typo, two tokens, and an unrelated word.
qEmpty == <<>>
qBlank == <<" ">>
qPunct == <<"-">>
qAB == <<"a", "b">>
qUpper == <<"A", "B">>
qC_AB == <<"c", " ", "a", "b">>
qXYZ == <<"x", "y", "z">>

Queries == {qEmpty, qBlank, qPunct, qAB, qUpper, qC_AB, qXYZ}

\* A timestamp is absent, the epoch, or LateDay days after it.
Times == {NoTime, 0, LateDay}

Abs(n) == IF n < 0 THEN -n ELSE n

Min2(a, b) == IF a < b THEN a ELSE b

Min3(a, b, c) == Min2(a, Min2(b, c))

\* Levenshtein distance, one dynamic-programming row at a time: prev is the
\* row of the prefix b[1..j-1], acc the row of b[1..j] built so far.  LevRows
\* takes the length of each row, which is always Len(a) + 1, so that the row
\* is computed before the next one is started.
RECURSIVE LevRow(_, _, _, _, _)
LevRow(prev, a, bj, i, acc) ==
    IF i > Len(a) THEN acc
    ELSE LET cost == IF a[i] = bj THEN 0 ELSE 1
             v == Min3(prev[i + 1] + 1, acc[i] + 1, prev[i] + cost)
         IN  LevRow(prev, a, bj, i + 1, Append(acc, v))

RECURSIVE LevRows(_, _, _, _)
LevRows(prev, a, b, j) ==
    IF j > Len(b) THEN prev[Len(a) + 1]
    ELSE LET row == LevRow(prev, a, b[j], 1, <<j>>)
         IN  IF Len(row) = Len(a) + 1 THEN LevRows(row, a, b, j + 1) ELSE -1

Levenshtein(a, b) == LevRows([i \in 1 .. Len(a) + 1 |-> i - 1], a, b, 1)

\* Array.prototype.sort: stable, ascending in the comparator, given as the
\* table cmp[j, i] of its values on the elements s[j], s[i] (a negative value
\* puts s[j] first).
StableSort(s, cmp) ==
    LET n == Len(s)
        pos == [i \in 1 .. n |->
                   Cardinality({j \in 1 .. n : cmp[j, i] < 0})
                   + Cardinality({j \in 1 .. i : cmp[j, i] = 0})]
    IN  [k \in 1 .. n |-> s[CHOOSE i \in 1 .. n : pos[i] = k]]

\* slice(0, n + 1): one element too many.
SliceTo_offByOne(s, n) == SubSeq(s, 1, Min2(n + 1, Len(s)))

\* Array.prototype.slice(0, n) for n >= 0; slice(0, undefined) is the whole
\* array.
SliceTo(s, n) == IF n = Undefined THEN s ELSE SubSeq(s, 1, Min2(n, Len(s)))

\* Map.has / Map.get on an insertion-ordered map.
MapHas(m, k) == \E i \in 1 .. Len(m) : m[i].key = k

MapIndex(m, k) == CHOOSE i \in 1 .. Len(m) : m[i].key = k

\* ---------------------------------------------------------------- frequency.ts
DEFAULT_OPTIONS ==
    [minFrequency |-> 5, top |-> 20, similarityThreshold |-> 3,
     minSequenceLength |-> 2, maxSequenceLength |-> 5]

\* The options argument left out, or passed as {}: no key at all.
NoOptions == [k \in {} |-> Undefined]

\* mergeOptions keeping the default where the value passed is undefined.
mergeOptions_skipUndefined(defaults, given) ==
    [k \in DOMAIN defaults |->
        IF k \in DOMAIN given /\ given[k] # Undefined THEN given[k] ELSE defaults[k]]

\* Line 52, { ...DEFAULT_OPTIONS, ...options }: every key of the options
\* passed replaces the default, whatever its value.
mergeOptions(defaults, given) ==
    [k \in DOMAIN defaults |-> IF k \in DOMAIN given THEN given[k] ELSE defaults[k]]

\* CountOne keeping the first timestamp recorded for the key.
CountOne_firstStamp(counts, k, ts) ==
    IF MapHas(counts, k)
    THEN LET i == MapIndex(counts, k)
         IN  [counts EXCEPT ![i] =
                 [key |-> k, count |-> counts[i].count + 1,
                  lastUsed |-> counts[i].lastUsed]]
    ELSE Append(counts, [key |-> k, count |-> 1, lastUsed |-> ts])

\* One step of the counting loops of countExactCommands and detectSequences.
CountOne(counts, k, ts) ==
    IF MapHas(counts, k)
    THEN LET i == MapIndex(counts, k)
             existing == counts[i]
         IN  [counts EXCEPT ![i] =
                 [key |-> k,
                  count |-> existing.count + 1,
                  lastUsed |->
                      IF ts # NoTime /\ (existing.lastUsed = NoTime \/ ts > existing.lastUsed)
                      THEN ts ELSE existing.lastUsed]]
    ELSE Append(counts, [key |-> k, count |-> 1, lastUsed |-> ts])

RECURSIVE countExactUpTo(_, _)
countExactUpTo(es, n) ==
    IF n = 0 THEN <<>>
    ELSE CountOne(countExactUpTo(es, n - 1), es[n].command, es[n].timestamp)

countExactCommands(es) == countExactUpTo(es, Len(es))

RECURSIVE JoinCommands(_, _, _)
JoinCommands(es, from, to) ==
    IF from = to THEN es[from].command
    ELSE es[from].command \o SEP \o JoinCommands(es, from + 1, to)

\* SlideWindow stopping one window early.
RECURSIVE SlideWindow_stopsEarly(_, _, _, _)
SlideWindow_stopsEarly(seqs, es, windowSize, i) ==
    IF i > Len(es) - windowSize THEN seqs
    ELSE SlideWindow_stopsEarly(
             CountOne(seqs, JoinCommands(es, i, i + windowSize - 1),
                      es[i + windowSize - 1].timestamp),
             es, windowSize, i + 1)

\* The windows of one size, from start position i (1-based) on.
RECURSIVE SlideWindow(_, _, _, _)
SlideWindow(seqs, es, windowSize, i) ==
    IF i > Len(es) - windowSize + 1 THEN seqs
    ELSE SlideWindow(
             CountOne(seqs, JoinCommands(es, i, i + windowSize - 1),
                      es[i + windowSize - 1].timestamp),
             es, windowSize, i + 1)

RECURSIVE detectFrom(_, _, _, _)
detectFrom(seqs, es, windowSize, maxLen) ==
    IF windowSize > maxLen THEN seqs
    ELSE IF Len(es) < windowSize THEN detectFrom(seqs, es, windowSize + 1, maxLen)
    ELSE detectFrom(SlideWindow(seqs, es, windowSize, 1), es, windowSize + 1, maxLen)

\* detectSequences putting an inverted range in order first.
detectSequences_swapsRange(es, minLen, maxLen) ==
    IF minLen > maxLen THEN detectFrom(<<>>, es, maxLen, minLen)
    ELSE detectFrom(<<>>, es, minLen, maxLen)

detectSequences(es, minLen, maxLen) == detectFrom(<<>>, es, minLen, maxLen)

\* mergeSequences adding a sequence's count to a key already present.
RECURSIVE mergeSequences_addsCounts(_, _, _)
mergeSequences_addsCounts(exactCounts, sequenceCounts, i) ==
    IF i > Len(sequenceCounts) THEN exactCounts
    ELSE mergeSequences_addsCounts(
             IF MapHas(exactCounts, sequenceCounts[i].key)
             THEN [exactCounts EXCEPT ![MapIndex(exactCounts, sequenceCounts[i].key)] =
                      [key |-> @.key, count |-> @.count + sequenceCounts[i].count,
                       lastUsed |-> @.lastUsed]]
             ELSE Append(exactCounts, sequenceCounts[i]),
             sequenceCounts, i + 1)

\* Step 3 of analyzeFrequency: a sequence key is set only if absent.
RECURSIVE mergeSequences(_, _, _)
mergeSequences(exactCounts, sequenceCounts, i) ==
    IF i > Len(sequenceCounts) THEN exactCounts
    ELSE mergeSequences(
             IF MapHas(exactCounts, sequenceCounts[i].key) THEN exactCounts
             ELSE Append(exactCounts, sequenceCounts[i]),
             sequenceCounts, i + 1)

\* cmpCount sorting by count ascending.
cmpCount_ascending(a, b) == a.count - b.count

cmpCount(a, b) == b.count - a.count

\* isConsumed with "and" for "or": only the representative is skipped.
isConsumed_and(otherCmd, cmd, used) == otherCmd \in used /\ otherCmd = cmd

\* Line 189: the candidate is the representative itself or already consumed.
isConsumed(otherCmd, cmd, used) == otherCmd = cmd \/ otherCmd \in used

\* isSimilar with the distance test made strict.
isSimilar_strict(cmd, otherCmd, threshold) ==
    /\ ~(Abs(Len(cmd) - Len(otherCmd)) > threshold)
    /\ Levenshtein(cmd, otherCmd) < threshold

\* isSimilar with the length pre-filter alone.
isSimilar_lengthOnly(cmd, otherCmd, threshold) ==
    ~(Abs(Len(cmd) - Len(otherCmd)) > threshold)

\* Lines 193-196: the length pre-filter, then the distance test.
isSimilar(cmd, otherCmd, threshold) ==
    /\ ~(Abs(Len(cmd) - Len(otherCmd)) > threshold)
    /\ Levenshtein(cmd, otherCmd) <= threshold

\* absorb without adding the merged key's count.
absorb_countLost(p, other) ==
    [pattern |-> p.pattern,
     frequency |-> p.frequency,
     lastUsed |->
         IF other.lastUsed # NoTime
            /\ (p.lastUsed = NoTime \/ other.lastUsed > p.lastUsed)
         THEN other.lastUsed ELSE p.lastUsed,
     variations |-> Append(p.variations, other.key)]

\* Lines 198-205: merge the candidate into the cluster p being built.
absorb(p, other) ==
    [pattern |-> p.pattern,
     frequency |-> p.frequency + other.count,
     lastUsed |->
         IF other.lastUsed # NoTime
            /\ (p.lastUsed = NoTime \/ other.lastUsed > p.lastUsed)
         THEN other.lastUsed ELSE p.lastUsed,
     variations |-> Append(p.variations, other.key)]

\* The inner loop of groupSimilarCommands: scan sorted[j..] for the
\* representative rep, accumulating in acc = [used, p].
RECURSIVE scanOthers(_, _, _, _, _)
scanOthers(sorted, j, rep, threshold, acc) ==
    IF j > Len(sorted) THEN acc
    ELSE LET other == sorted[j]
         IN  IF isConsumed(other.key, rep, acc.used) \/ ~isSimilar(rep, other.key, threshold)
             THEN scanOthers(sorted, j + 1, rep, threshold, acc)
             ELSE scanOthers(sorted, j + 1, rep, threshold,
                     [used |-> acc.used \cup {other.key}, p |-> absorb(acc.p, other)])

\* The outer loop of groupSimilarCommands.
RECURSIVE groupFrom(_, _, _, _, _)
groupFrom(sorted, i, threshold, used, patterns) ==
    IF i > Len(sorted) THEN patterns
    ELSE IF sorted[i].key \in used THEN groupFrom(sorted, i + 1, threshold, used, patterns)
    ELSE LET r == scanOthers(sorted, 1, sorted[i].key, threshold,
                     [used |-> used \cup {sorted[i].key},
                      p |-> [pattern |-> sorted[i].key,
                             frequency |-> sorted[i].count,
                             lastUsed |-> sorted[i].lastUsed,
                             variations |-> <<>>]])
         IN  groupFrom(sorted, i + 1, threshold, r.used, Append(patterns, r.p))

groupSimilarCommands(counts, threshold) ==
    groupFrom(StableSort(counts, [i, j \in 1 .. Len(counts) |->
                                     cmpCount(counts[i], counts[j])]),
              1, threshold, {}, <<>>)

\* meetsMinFrequency with the comparison made strict.
meetsMinFrequency_strict(p, minFrequency) == p.frequency > minFrequency

\* Line 77: the predicate of the filter; a comparison with undefined is
\* false.
meetsMinFrequency(p, minFrequency) ==
    minFrequency # Undefined /\ p.frequency >= minFrequency

RECURSIVE filterPatterns(_, _)
filterPatterns(grouped, minFrequency) ==
    IF grouped = <<>> THEN <<>>
    ELSE (IF meetsMinFrequency(Head(grouped), minFrequency) THEN <<Head(grouped)>> ELSE <<>>)
         \o filterPatterns(Tail(grouped), minFrequency)

getTime(lastUsed) == IF lastUsed = NoTime THEN 0 ELSE lastUsed

\* cmpPattern without the recency tie-break.
cmpPattern_frequencyOnly(a, b) == b.frequency - a.frequency

cmpPattern(a, b) ==
    IF b.frequency # a.frequency THEN b.frequency - a.frequency
    ELSE getTime(b.lastUsed) - getTime(a.lastUsed)

rankPatterns(filtered) ==
    StableSort(filtered, [i, j \in 1 .. Len(filtered) |->
                             cmpPattern(filtered[i], filtered[j])])

\* Steps 1 and 3 of analyzeFrequency: the counting structure handed to
\* clustering, given the sequence counts of step 2.
countAll(es, sequenceCounts) ==
    mergeSequences(countExactCommands(es), sequenceCounts, 1)

\* The body of analyzeFrequency, with its local structures: opts,
\* sequenceCounts, exactCounts after the merge of step 3, grouped, filtered
\* after the in-place sort, and the returned list.
analyzeRun(es, given) ==
    LET o == mergeOptions(DEFAULT_OPTIONS, given)
    IN  IF Len(es) = 0
        THEN [opts |-> o, sequenceCounts |-> <<>>, exactCounts |-> <<>>,
              grouped |-> <<>>, filtered |-> <<>>, result |-> <<>>]
        ELSE LET seqs == detectSequences(es, o.minSequenceLength, o.maxSequenceLength)
                 counts == countAll(es, seqs)
                 g == groupSimilarCommands(counts, o.similarityThreshold)
                 f == rankPatterns(filterPatterns(g, o.minFrequency))
             IN  [opts |-> o, sequenceCounts |-> seqs, exactCounts |-> counts,
                  grouped |-> g, filtered |-> f, result |-> SliceTo(f, o.top)]

analyzeFrequency(es, given) == analyzeRun(es, given).result

\* ---------------------------------------------------------------- scorer.ts
\* Sub-scores are integers in 0 .. UNIT standing for 0 .. 1; weights and the
\* combined score are in hundredths of UNIT.
UNIT == 6000000

FUZZY_THRESHOLD == 2

WEIGHT_EXACT == 50

WEIGHT_FUZZY == 20

WEIGHT_SUBSTRING == 20

WEIGHT_FREQUENCY == 5

WEIGHT_RECENCY == 5

MIN_SCORE == 5

THIRTY_DAYS == 30

DEFAULT_MAX_RESULTS == 10

Upper == <<"A", "B", "C", "D", "E", "F", "G", "H", "I", "J", "K", "L", "M",
           "N", "O", "P", "Q", "R", "S", "T", "U", "V", "W", "X", "Y", "Z">>

Lower == <<"a", "b", "c", "d", "e", "f", "g", "h", "i", "j", "k", "l", "m",
           "n", "o", "p", "q", "r", "s", "t", "u", "v", "w", "x", "y", "z">>

Whitespace == {" ", "\t", "\n", "\r", "\f"}

\* The character class of the split in tokenize ("BACKQUOTE" stands for the
\* backquote character).
Separators ==
    Whitespace \cup {"/", "-", "_", ".", "=", "|", ";", ":", "&", "\"", "'", "BACKQUOTE",
                     "<", ">", "(", ")", "{", "}", "[", "]"}

toLowerCase(str) ==
    [i \in 1 .. Len(str) |->
        IF \E k \in 1 .. Len(Upper) : Upper[k] = str[i]
        THEN Lower[CHOOSE k \in 1 .. Len(Upper) : Upper[k] = str[i]]
        ELSE str[i]]

\* String.prototype.trim() = "" .
IsBlank(str) == \A i \in 1 .. Len(str) : str[i] \in Whitespace

\* split on runs of separators, then drop the empty fragments: tokens is the
\* list so far, cur the fragment being read.
RECURSIVE splitFrom(_, _, _, _)
splitFrom(str, i, tokens, cur) ==
    IF i > Len(str) THEN (IF cur = <<>> THEN tokens ELSE Append(tokens, cur))
    ELSE IF str[i] \in Separators
         THEN splitFrom(str, i + 1, IF cur = <<>> THEN tokens ELSE Append(tokens, cur), <<>>)
         ELSE splitFrom(str, i + 1, tokens, Append(cur, str[i]))

\* tokenize without toLowerCase.
tokenize_caseKept(input) == splitFrom(input, 1, <<>>, <<>>)

tokenize(input) == splitFrom(toLowerCase(input), 1, <<>>, <<>>)

SeqToSet(s) == {s[i] : i \in 1 .. Len(s)}

exactOverlap(queryTokens, cmdTokens) ==
    IF Len(queryTokens) = 0 THEN 0
    ELSE LET cmdSet == SeqToSet(cmdTokens)
             matches == Cardinality({i \in 1 .. Len(queryTokens) : queryTokens[i] \in cmdSet})
         IN  (matches * UNIT) \div Len(queryTokens)

\* The inner loop of fuzzyOverlap: does some command token lie within
\* FUZZY_THRESHOLD of qt?
hasFuzzyMatch(qt, cmdTokens) ==
    \E j \in 1 .. Len(cmdTokens) :
        /\ Abs(Len(qt) - Len(cmdTokens[j])) <= FUZZY_THRESHOLD
        /\ Levenshtein(qt, cmdTokens[j]) <= FUZZY_THRESHOLD

\* fuzzyOverlap as a fraction of the unmatched query tokens.
fuzzyOverlap_overUnmatched(queryTokens, cmdTokens) ==
    IF Len(queryTokens) = 0 THEN 0
    ELSE LET cmdSet == SeqToSet(cmdTokens)
             unmatched == {i \in 1 .. Len(queryTokens) : queryTokens[i] \notin cmdSet}
         IN  IF unmatched = {} THEN UNIT
             ELSE LET fuzzyMatches ==
                          Cardinality({i \in unmatched : hasFuzzyMatch(queryTokens[i], cmdTokens)})
                  IN  (fuzzyMatches * UNIT) \div Cardinality(unmatched)

fuzzyOverlap(queryTokens, cmdTokens) ==
    IF Len(queryTokens) = 0 THEN 0
    ELSE LET cmdSet == SeqToSet(cmdTokens)
             unmatched == {i \in 1 .. Len(queryTokens) : queryTokens[i] \notin cmdSet}
         IN  IF unmatched = {} THEN UNIT
             ELSE LET fuzzyMatches ==
                          Cardinality({i \in unmatched : hasFuzzyMatch(queryTokens[i], cmdTokens)})
                  IN  (fuzzyMatches * UNIT) \div Len(queryTokens)

\* String.prototype.startsWith and includes.
startsWith(str, prefix) ==
    /\ Len(prefix) <= Len(str)
    /\ SubSeq(str, 1, Len(prefix)) = prefix

includes(str, sub) ==
    \E i \in 1 .. Len(str) - Len(sub) + 1 : SubSeq(str, i, i + Len(sub) - 1) = sub

\* substringScore without the prefix fallback.
substringScore_includesOnly(q0, command, queryTokens, cmdTokens) ==
    IF includes(toLowerCase(command), toLowerCase(q0)) THEN UNIT ELSE 0

substringScore(q0, command, queryTokens, cmdTokens) ==
    LET q == toLowerCase(q0)
        c == toLowerCase(command)
    IN  IF includes(c, q) THEN UNIT
        ELSE LET prefixHits ==
                     Cardinality({i \in 1 .. Len(queryTokens) :
                         \E j \in 1 .. Len(cmdTokens) :
                             \/ startsWith(cmdTokens[j], queryTokens[i])
                             \/ startsWith(queryTokens[i], cmdTokens[j])})
             IN  IF Len(queryTokens) > 0 THEN (prefixHits * UNIT) \div Len(queryTokens)
                 ELSE 0

\* Math.log(1 + f) / Math.log(1 + m) in units of 1/UNIT, for 1 <= f <= m <= 6.
LogRatio ==
    << <<6000000>>,
       <<3785579, 6000000>>,
       <<3000000, 4754888, 6000000>>,
       <<2584059, 4095637, 5168119, 6000000>>,
       <<2321117, 3678883, 4642234, 5389466, 6000000>>,
       <<2137243, 3387450, 4274486, 4962525, 5524693, 6000000>> >>

frequencyScore(frequency, maxFrequency) ==
    IF maxFrequency <= 1 THEN 0 ELSE LogRatio[maxFrequency][frequency]

\* recencyScore with the age taken the wrong way round.
recencyScore_ageReversed(timestamp, newestTimestamp) ==
    IF timestamp = NoTime THEN 0
    ELSE LET age == timestamp - newestTimestamp
         IN  IF age <= 0 THEN UNIT
             ELSE LET v == UNIT - (age * UNIT) \div THIRTY_DAYS
                  IN  IF v < 0 THEN 0 ELSE v

\* recencyScore with the newest timestamp alone scoring 1: a later one is
\* given a negative age.
recencyScore_futureAged(timestamp, newestTimestamp) ==
    IF timestamp = NoTime THEN 0
    ELSE LET age == newestTimestamp - timestamp
         IN  IF age = 0 THEN UNIT
             ELSE LET v == UNIT - (age * UNIT) \div THIRTY_DAYS
                  IN  IF v < 0 THEN 0 ELSE v

\* recencyScore without Math.max(0, ...).
recencyScore_noClamp(timestamp, newestTimestamp) ==
    IF timestamp = NoTime THEN 0
    ELSE LET age == newestTimestamp - timestamp
         IN  IF age <= 0 THEN UNIT
             ELSE UNIT - (age * UNIT) \div THIRTY_DAYS

recencyScore(timestamp, newestTimestamp) ==
    IF timestamp = NoTime THEN 0
    ELSE LET age == newestTimestamp - timestamp
         IN  IF age <= 0 THEN UNIT
             ELSE LET v == UNIT - (age * UNIT) \div THIRTY_DAYS
                  IN  IF v < 0 THEN 0 ELSE v

\* updateMeta taking the last timestamp seen instead of the latest.
updateMeta_lastSeen(existing, entry) ==
    [key |-> existing.key,
     frequency |-> existing.frequency + 1,
     lastUsed |-> IF entry.timestamp # NoTime THEN entry.timestamp ELSE existing.lastUsed,
     lineNumber |->
         IF entry.lineNumber > existing.lineNumber
         THEN entry.lineNumber ELSE existing.lineNumber]

\* Lines 167-171: one more occurrence of a command already in the map.
updateMeta(existing, entry) ==
    [key |-> existing.key,
     frequency |-> existing.frequency + 1,
     lastUsed |->
         IF entry.timestamp # NoTime
            /\ (existing.lastUsed = NoTime \/ entry.timestamp > existing.lastUsed)
         THEN entry.timestamp ELSE existing.lastUsed,
     lineNumber |->
         IF entry.lineNumber > existing.lineNumber
         THEN entry.lineNumber ELSE existing.lineNumber]

\* The aggregation loop of searchHistory.
RECURSIVE aggregateUpTo(_, _)
aggregateUpTo(es, n) ==
    IF n = 0 THEN <<>>
    ELSE LET m == aggregateUpTo(es, n - 1)
             entry == es[n]
         IN  IF MapHas(m, entry.command)
             THEN [m EXCEPT ![MapIndex(m, entry.command)] = updateMeta(@, entry)]
             ELSE Append(m, [key |-> entry.command, frequency |-> 1,
                             lastUsed |-> entry.timestamp,
                             lineNumber |-> entry.lineNumber])

\* maxFreq and newestTimestamp over the aggregated map.
RECURSIVE maxFreqUpTo(_, _)
maxFreqUpTo(m, n) ==
    IF n = 0 THEN 1
    ELSE LET prev == maxFreqUpTo(m, n - 1)
         IN  IF m[n].frequency > prev THEN m[n].frequency ELSE prev

RECURSIVE newestUpTo(_, _)
newestUpTo(m, n) ==
    IF n = 0 THEN 0
    ELSE LET prev == newestUpTo(m, n - 1)
         IN  IF m[n].lastUsed # NoTime /\ m[n].lastUsed > prev THEN m[n].lastUsed ELSE prev

\* combinedScore with the substring weight on the recency score.
combinedScore_recencyWeight(exact, fuzzy, substr, freq, recent) ==
    WEIGHT_EXACT * exact + WEIGHT_FUZZY * fuzzy + WEIGHT_SUBSTRING * substr
    + WEIGHT_FREQUENCY * freq + WEIGHT_SUBSTRING * recent

\* The weighted sum, in hundredths of UNIT.
combinedScore(exact, fuzzy, substr, freq, recent) ==
    WEIGHT_EXACT * exact + WEIGHT_FUZZY * fuzzy + WEIGHT_SUBSTRING * substr
    + WEIGHT_FREQUENCY * freq + WEIGHT_RECENCY * recent

\* Math.round(score * 1000): the score in thousandths.
roundMilli(score) == (score + UNIT \div 20) \div (UNIT \div 10)

scoreOf(q0, queryTokens, meta, maxFreq, newestTimestamp) ==
    LET cmdTokens == tokenize(meta.key)
    IN  combinedScore(exactOverlap(queryTokens, cmdTokens),
                      fuzzyOverlap(queryTokens, cmdTokens),
                      substringScore(q0, meta.key, queryTokens, cmdTokens),
                      frequencyScore(meta.frequency, maxFreq),
                      recencyScore(meta.lastUsed, newestTimestamp))

\* passesThreshold keeping every command with a positive score.
passesThreshold_positive(score) == score > 0

\* Line 210: the threshold, applied to the unrounded score.
passesThreshold(score) == score >= MIN_SCORE * UNIT

\* The scoring loop: the commands kept, in map order.
RECURSIVE scoreFrom(_, _, _, _, _, _)
scoreFrom(m, i, q0, queryTokens, maxFreq, newestTimestamp) ==
    IF i > Len(m) THEN <<>>
    ELSE LET score == scoreOf(q0, queryTokens, m[i], maxFreq, newestTimestamp)
         IN  (IF passesThreshold(score)
              THEN <<[command |-> m[i].key, score |-> roundMilli(score),
                      lastUsed |-> m[i].lastUsed, frequency |-> m[i].frequency,
                      lineNumber |-> m[i].lineNumber]>>
              ELSE <<>>)
             \o scoreFrom(m, i + 1, q0, queryTokens, maxFreq, newestTimestamp)

\* cmpResult without the frequency tie-break.
cmpResult_scoreOnly(a, b) == b.score - a.score

\* cmpResult ranking the lowest score first.
cmpResult_ascending(a, b) ==
    IF a.score - b.score # 0 THEN a.score - b.score ELSE b.frequency - a.frequency

\* b.score - a.score || b.frequency - a.frequency
cmpResult(a, b) ==
    IF b.score - a.score # 0 THEN b.score - a.score ELSE b.frequency - a.frequency

\* returnsEarly without the test on the token list.
returnsEarly_trimOnly(es, q0) == Len(es) = 0 \/ IsBlank(q0)

\* Lines 153-156: the two early returns.
returnsEarly(es, q0) == Len(es) = 0 \/ IsBlank(q0) \/ Len(tokenize(q0)) = 0

\* searchRun without the sort: the kept commands stay in map order.
searchRun_unsorted(es, q0, maxResults) ==
    IF returnsEarly(es, q0)
    THEN [commandMap |-> <<>>, scored |-> <<>>, result |-> <<>>]
    ELSE LET queryTokens == tokenize(q0)
             m == aggregateUpTo(es, Len(es))
             unsorted == scoreFrom(m, 1, q0, queryTokens, maxFreqUpTo(m, Len(m)),
                                   newestUpTo(m, Len(m)))
         IN  [commandMap |-> m, scored |-> unsorted, result |-> SliceTo(unsorted, maxResults)]

\* The body of searchHistory with its local structures: commandMap, scored
\* after the in-place sort, and the returned list.
searchRun(es, q0, maxResults) ==
    IF returnsEarly(es, q0)
    THEN [commandMap |-> <<>>, scored |-> <<>>, result |-> <<>>]
    ELSE LET queryTokens == tokenize(q0)
             m == aggregateUpTo(es, Len(es))
             unsorted == scoreFrom(m, 1, q0, queryTokens, maxFreqUpTo(m, Len(m)),
                                   newestUpTo(m, Len(m)))
             sc == StableSort(unsorted, [i, j \in 1 .. Len(unsorted) |->
                                            cmpResult(unsorted[i], unsorted[j])])
         IN  [commandMap |-> m, scored |-> sc, result |-> SliceTo(sc, maxResults)]

searchHistory(es, q0, maxResults) == searchRun(es, q0, maxResults).result

\* ---------------------------------------------------------------- parsers/common.ts
cLS == <<"l", "s">>
cUpperLS == <<"L", "S">>
cQ == <<"q">>

NOISE_COMMANDS ==
    {<<"l", "s">>, <<"c", "d">>, <<"c", "l", "e", "a", "r">>, <<"e", "x", "i", "t">>,
     <<"p", "w", "d">>, <<"h", "i", "s", "t", "o", "r", "y">>}

\* String.prototype.trim, in two passes.
RECURSIVE trimStart(_)
trimStart(str) ==
    IF str # <<>> /\ Head(str) \in Whitespace THEN trimStart(Tail(str)) ELSE str

RECURSIVE trimEnd(_)
trimEnd(str) ==
    IF str # <<>> /\ str[Len(str)] \in Whitespace
    THEN trimEnd(SubSeq(str, 1, Len(str) - 1)) ELSE str

trim(str) == trimEnd(trimStart(str))

isNoiseCommand(command) ==
    LET trimmed == trim(command)
    IN  \/ Len(trimmed) = 0
        \/ Len(trimmed) = 1
        \/ toLowerCase(trimmed) \in NOISE_COMMANDS

\* The loop of deduplicateConsecutive from index i (1-based), result being
\* the list built so far.
RECURSIVE dedupFrom(_, _, _)
dedupFrom(es, i, result) ==
    IF i > Len(es) THEN result
    ELSE dedupFrom(es, i + 1,
             IF es[i].command # es[i - 1].command THEN Append(result, es[i]) ELSE result)

\* deduplicateConsecutive dropping every entry whose command occurred before,
\* adjacent or not.
deduplicateConsecutive_seen(es) ==
    LET keep == {i \in 1 .. Len(es) : \A j \in 1 .. i - 1 : es[j].command # es[i].command}
    IN  [k \in 1 .. Cardinality(keep) |->
            es[CHOOSE i \in keep : Cardinality({j \in keep : j < i}) = k - 1]]

deduplicateConsecutive(es) ==
    IF Len(es) = 0 THEN <<>> ELSE dedupFrom(es, 2, <<es[1]>>)

\* entries.filter((e) => !isNoiseCommand(e.command))
RECURSIVE filterNoise(_)
filterNoise(es) ==
    IF es = <<>> THEN <<>>
    ELSE (IF isNoiseCommand(Head(es).command) THEN <<>> ELSE <<Head(es)>>)
         \o filterNoise(Tail(es))

\* The last two statements of parseBashHistory, applied to the entries the
\* line parser returned.
parseBashHistory(parsed) == deduplicateConsecutive(filterNoise(parsed))

\* ---------------------------------------------------------------- state
VARIABLES entries, call, options, opts, sequenceCounts, exactCounts, grouped,
          filtered, patterns, query, maxResults, commandMap, scored, results, probe

vars == <<entries, call, options, opts, sequenceCounts, exactCounts, grouped,
          filtered, patterns, query, maxResults, commandMap, scored, results, probe>>

analysisVars ==
    <<options, opts, sequenceCounts, exactCounts, grouped, filtered, patterns>>

searchVars == <<query, maxResults, commandMap, scored, results>>

\* probe holds the last direct call of one of the exported scoring functions:
\* its name, its arguments and the value it returned.
NoProbe == [fn |-> "none"]

OptionSets ==
    [minFrequency : 1 .. MaxMinFreq, top : 0 .. MaxTop,
     similarityThreshold : 0 .. MaxThreshold,
     minSequenceLength : 1 .. MaxSeqLen, maxSequenceLength : 1 .. MaxSeqLen]

NoAnalysis ==
    /\ options' = NoOptions
    /\ opts' = DEFAULT_OPTIONS
    /\ sequenceCounts' = <<>>
    /\ exactCounts' = <<>>
    /\ grouped' = <<>>
    /\ filtered' = <<>>
    /\ patterns' = <<>>

NoSearch ==
    /\ query' = <<>>
    /\ maxResults' = DEFAULT_MAX_RESULTS
    /\ commandMap' = <<>>
    /\ scored' = <<>>
    /\ results' = <<>>

Init ==
    /\ entries = <<>>
    /\ call = "none"
    /\ options = NoOptions
    /\ opts = DEFAULT_OPTIONS
    /\ sequenceCounts = <<>>
    /\ exactCounts = <<>>
    /\ grouped = <<>>
    /\ filtered = <<>>
    /\ patterns = <<>>
    /\ query = <<>>
    /\ maxResults = DEFAULT_MAX_RESULTS
    /\ commandMap = <<>>
    /\ scored = <<>>
    /\ results = <<>>
    /\ probe = NoProbe

\* The caller hands the engines one more parsed history line; lineNumber is
\* its position.  Any earlier call's result is discarded.
AddEntry ==
    /\ Len(entries) < MaxEntries
    /\ \E c \in Commands, t \in Times :
           entries' = Append(entries,
               [command |-> c, timestamp |-> t, lineNumber |-> Len(entries) + 1])
    /\ call' = "none"
    /\ NoAnalysis
    /\ NoSearch
    /\ UNCHANGED probe

\* AnalyzeCall with the input list consumed: its last entry is popped.
AnalyzeCall_popsInput(o) ==
    /\ LET r == analyzeRun(entries, o)
       IN  /\ opts' = r.opts
           /\ sequenceCounts' = r.sequenceCounts
           /\ exactCounts' = r.exactCounts
           /\ grouped' = r.grouped
           /\ filtered' = r.filtered
           /\ patterns' = r.result
    /\ call' = "analyze"
    /\ options' = o
    /\ entries' = SubSeq(entries, 1, Len(entries) - 1)
    /\ UNCHANGED <<searchVars, probe>>

\* One synchronous call analyzeFrequency(entries, o); the working structures
\* of the call are kept beside the returned list.  The call reads entries and
\* writes only its own locals.
AnalyzeCall(o) ==
    /\ LET r == analyzeRun(entries, o)
       IN  /\ opts' = r.opts
           /\ sequenceCounts' = r.sequenceCounts
           /\ exactCounts' = r.exactCounts
           /\ grouped' = r.grouped
           /\ filtered' = r.filtered
           /\ patterns' = r.result
    /\ call' = "analyze"
    /\ options' = o
    /\ UNCHANGED <<entries, searchVars, probe>>

\* The call made by a caller that has made no call on this history yet.
AnalyzeWith(o) == call = "none" /\ AnalyzeCall(o)

Analyze == \E o \in OptionSets : AnalyzeWith(o)

\* options omitted.
AnalyzeDefault == AnalyzeWith(NoOptions)

\* One synchronous call searchHistory(entries, q, n).
SearchCall(q, n) ==
    /\ LET r == searchRun(entries, q, n)
       IN  /\ commandMap' = r.commandMap
           /\ scored' = r.scored
           /\ results' = r.result
    /\ call' = "search"
    /\ query' = q
    /\ maxResults' = n
    /\ UNCHANGED <<entries, analysisVars, probe>>

SearchWith(q, n) == call = "none" /\ SearchCall(q, n)

Search == \E q \in Queries, n \in 0 .. MaxResultsBound : SearchWith(q, n)

\* maxResults omitted: the parameter default.
SearchDefault == \E q \in Queries : SearchWith(q, DEFAULT_MAX_RESULTS)

Next == AddEntry \/ Analyze \/ AnalyzeDefault \/ Search \/ SearchDefault

Spec == Init /\ [][Next]_vars

\* ---------------------------------------------------------------- sessions
\* A second system: longer histories over two commands, one of which reads
\* like a joined sequence, and a caller that makes call after call on the
\* same history, as the CLI commands do.
AddSessionEntry ==
    /\ Len(entries) < MaxSessionEntries
    /\ \E c \in SessionCommands, t \in SessionTimes :
           entries' = Append(entries,
               [command |-> c, timestamp |-> t, lineNumber |-> Len(entries) + 1])
    /\ call' = "none"
    /\ NoAnalysis
    /\ NoSearch
    /\ UNCHANGED probe

\* runAnalyze and runReport without --min-frequency and --top: both keys are
\* passed, with the value undefined.
FlagsAbsent == [minFrequency |-> Undefined, top |-> Undefined]

AnalyzeFlagsAbsent == AnalyzeCall(FlagsAbsent)

AnalyzeOmitted == AnalyzeCall(NoOptions)

\* Three of the five options passed.
AnalyzeSequences ==
    \E w \in 1 .. MaxSeqLen :
        AnalyzeCall([minFrequency |-> 1, minSequenceLength |-> w,
                     maxSequenceLength |-> MaxSeqLen])

SearchSession == SearchCall(qXYZ, DEFAULT_MAX_RESULTS)

SessionNext ==
    AddSessionEntry \/ AnalyzeFlagsAbsent \/ AnalyzeOmitted \/ AnalyzeSequences
    \/ SearchSession

SessionSpec == Init /\ [][SessionNext]_vars

\* ---------------------------------------------------------------- direct calls
\* A third system: the exported scoring functions called directly, as the
\* unit tests do.
tAB == <<"a", "b">>
tABC == <<"a", "b", "c">>
tC == <<"c">>
tXYZ == <<"x", "y", "z">>

Tokens == {tAB, tABC, tC, tXYZ}

\* The token lists of at most two tokens.
TokenLists == {<<>>} \cup {<<a>> : a \in Tokens} \cup {<<a, b>> : a, b \in Tokens}

CallRecencyScore ==
    /\ \E t \in {NoTime} \cup (0 .. MaxDay), n \in 0 .. MaxDay :
           probe' = [fn |-> "recencyScore", timestamp |-> t, newestTimestamp |-> n,
                     value |-> recencyScore(t, n)]
    /\ UNCHANGED <<entries, call, analysisVars, searchVars>>

CallFuzzyOverlap ==
    /\ \E qt \in TokenLists, ct \in TokenLists :
           probe' = [fn |-> "fuzzyOverlap", queryTokens |-> qt, cmdTokens |-> ct,
                     value |-> fuzzyOverlap(qt, ct)]
    /\ UNCHANGED <<entries, call, analysisVars, searchVars>>

DirectNext == CallRecencyScore \/ CallFuzzyOverlap

DirectSpec == Init /\ [][DirectNext]_vars

\* ---------------------------------------------------------------- tokenizer
\* A fourth system: the exported tokenizer called directly on short strings.

\* The characters of the strings handed to tokenize: a lower-case and an
\* upper-case letter, two separators and two characters that are neither.
InputChars == {"a", "B", " ", "-", "@", "$"}

InputStrings == UNION {[1 .. k -> InputChars] : k \in 0 .. MaxInputLen}

CallTokenize ==
    /\ \E s \in InputStrings :
           probe' = [fn |-> "tokenize", input |-> s, value |-> tokenize(s)]
    /\ UNCHANGED <<entries, call, analysisVars, searchVars>>

TextNext == CallTokenize

TextSpec == Init /\ [][TextNext]_vars

\* ---------------------------------------------------------------- parser
\* Another system: the entries the line parser pushed, handed to
\* deduplicateConsecutive directly or to the end of parseBashHistory.
ParsedCommands == {cAB, cABC, cLS, cUpperLS, cQ}

\* parseBashLines pushes the non-empty trimmed command of one more line.
AddParsedEntry ==
    /\ Len(entries) < MaxParsed
    /\ \E c \in ParsedCommands :
           entries' = Append(entries,
               [command |-> c, timestamp |-> NoTime, lineNumber |-> Len(entries) + 1])
    /\ probe' = NoProbe
    /\ UNCHANGED <<call, analysisVars, searchVars>>

\* The call reads its argument and builds a new list.
CallDeduplicateConsecutive ==
    /\ probe' = [fn |-> "deduplicateConsecutive", input |-> entries,
                 value |-> deduplicateConsecutive(entries)]
    /\ UNCHANGED <<entries, call, analysisVars, searchVars>>

CallParseBashHistory ==
    /\ probe' = [fn |-> "parseBashHistory", input |-> entries,
                 value |-> parseBashHistory(entries)]
    /\ UNCHANGED <<entries, call, analysisVars, searchVars>>

ParserNext == AddParsedEntry \/ CallDeduplicateConsecutive \/ CallParseBashHistory

ParserSpec == Init /\ [][ParserNext]_vars

\* ---------------------------------------------------------------- archives
\* Another system: searches of a history that spans more than thirty days,
\* so that the recency score of its old commands is clamped.
ArchiveTimes == {0, 1, THIRTY_DAYS + 1}

ArchiveQueries == {qAB, qC_AB, qXYZ}

AddArchiveEntry ==
    /\ Len(entries) < MaxEntries
    /\ \E c \in Commands, t \in ArchiveTimes :
           entries' = Append(entries,
               [command |-> c, timestamp |-> t, lineNumber |-> Len(entries) + 1])
    /\ call' = "none"
    /\ NoAnalysis
    /\ NoSearch
    /\ UNCHANGED probe

SearchArchive ==
    \E q \in ArchiveQueries, n \in {1, DEFAULT_MAX_RESULTS} : SearchWith(q, n)

ArchiveNext == AddArchiveEntry \/ SearchArchive

ArchiveSpec == Init /\ [][ArchiveNext]_vars

\* ---------------------------------------------------------------- properties
\* Vocabulary of the properties, stated on the inputs and results alone.
Keys(m) == {m[i].key : i \in 1 .. Len(m)}

CountOfKey(m, k) == m[CHOOSE i \in 1 .. Len(m) : m[i].key = k].count

Elems(s) == {s[i] : i \in 1 .. Len(s)}

\* Two distinct strings within edit distance and length difference t.
Close(a, b, t) ==
    /\ a # b
    /\ Abs(Len(a) - Len(b)) <= t
    /\ Levenshtein(a, b) <= t

\* One of a, b is the pattern of cluster g and the other one of its variations.
Pairs(g, a, b) ==
    \/ g.pattern = a /\ b \in Elems(g.variations)
    \/ g.pattern = b /\ a \in Elems(g.variations)

\* k was merged into the cluster of a key other than a and b.
AbsorbedByThird(k, a, b) ==
    \E i \in 1 .. Len(grouped) :
        /\ grouped[i].pattern \notin {a, b}
        /\ k \in Elems(grouped[i].variations)

IsPattern(k) == \E i \in 1 .. Len(grouped) : grouped[i].pattern = k

\* C1 as stated: any two counted keys of one call that are within
\* similarityThreshold in length and in edit distance end up, after
\* clustering, as the pattern and a variation of one cluster whose frequency
\* includes both counts.
C1_AnyClosePairShareCluster ==
    call = "analyze" =>
        \A a, b \in Keys(exactCounts) :
            Close(a, b, opts.similarityThreshold) =>
                \E i \in 1 .. Len(grouped) :
                    /\ Pairs(grouped[i], a, b)
                    /\ grouped[i].frequency
                           >= CountOfKey(exactCounts, a) + CountOfKey(exactCounts, b)

\* C1 amended: two close counted keys are never both cluster patterns, and
\* unless one of them was merged into the cluster of a third key, one is the
\* pattern and the other a variation of the same cluster, whose frequency
\* includes both counts.
C1_ClosePairShareClusterUnlessTaken ==
    call = "analyze" =>
        \A a, b \in Keys(exactCounts) :
            Close(a, b, opts.similarityThreshold) =>
                /\ ~(IsPattern(a) /\ IsPattern(b))
                /\ ~AbsorbedByThird(a, a, b) /\ ~AbsorbedByThird(b, a, b) =>
                       \E i \in 1 .. Len(grouped) :
                           /\ Pairs(grouped[i], a, b)
                           /\ grouped[i].frequency
                                  >= CountOfKey(exactCounts, a) + CountOfKey(exactCounts, b)

\* A call in which two close keys with counts 2 and 1 were merged into one
\* cluster of frequency 3.
C1_Witness ==
    /\ call = "analyze"
    /\ opts.similarityThreshold = 1
    /\ \E i \in 1 .. Len(grouped) :
           /\ grouped[i].pattern = cAB
           /\ grouped[i].variations = <<cABC>>
           /\ CountOfKey(exactCounts, cAB) = 2
           /\ grouped[i].frequency = 3

\* C2: every returned pattern has frequency >= minFrequency, and every cluster
\* with frequency >= minFrequency is in the filtered list.
C2_FrequencyFloor ==
    call = "analyze" =>
        /\ \A i \in 1 .. Len(patterns) : patterns[i].frequency >= opts.minFrequency
        /\ \A i \in 1 .. Len(grouped) :
               grouped[i].frequency >= opts.minFrequency => grouped[i] \in Elems(filtered)

\* A call whose filter kept a cluster exactly at the floor and dropped one
\* below it.
C2_Witness ==
    /\ call = "analyze"
    /\ \E i, j \in 1 .. Len(grouped) :
           /\ grouped[i].frequency = opts.minFrequency
           /\ grouped[i] \in Elems(patterns)
           /\ grouped[j].frequency < opts.minFrequency
           /\ grouped[j] \notin Elems(filtered)

\* The oldest possible value of a timestamp that is not before the epoch.
OldestTime == 0

LastUsedOrOldest(p) == IF p.lastUsed = NoTime THEN OldestTime ELSE p.lastUsed

\* C3: consecutive returned patterns are ordered by frequency descending,
\* then by lastUsed descending, an absent lastUsed counting as the oldest
\* possible value.
C3_PatternRankingOrder ==
    call = "analyze" =>
        \A i \in 1 .. Len(patterns) - 1 :
            \/ patterns[i].frequency > patterns[i + 1].frequency
            \/ /\ patterns[i].frequency = patterns[i + 1].frequency
               /\ LastUsedOrOldest(patterns[i]) >= LastUsedOrOldest(patterns[i + 1])

\* A result where the tie-break decided: equal frequencies, the first pattern
\* used later than the second, although its key was counted after it.
C3_Witness ==
    /\ call = "analyze"
    /\ Len(patterns) = 2
    /\ patterns[1].frequency = patterns[2].frequency
    /\ patterns[1].lastUsed = LateDay
    /\ patterns[2].lastUsed = NoTime
    /\ entries[1].command = patterns[2].pattern

\* C4: consecutive search results are ordered by the returned score
\* descending, then by frequency descending.
C4_SearchRankingOrder ==
    call = "search" =>
        \A i \in 1 .. Len(results) - 1 :
            \/ results[i].score > results[i + 1].score
            \/ /\ results[i].score = results[i + 1].score
               /\ results[i].frequency >= results[i + 1].frequency

\* A result where the tie-break decided: equal scores, the more frequent
\* command first although it entered the map second.
C4_Witness ==
    /\ call = "search"
    /\ Len(results) = 2
    /\ results[1].score = results[2].score
    /\ results[1].frequency > results[2].frequency
    /\ commandMap[1].key = results[2].command

OutranksPattern(x, y) ==
    \/ x.frequency > y.frequency
    \/ x.frequency = y.frequency /\ LastUsedOrOldest(x) > LastUsedOrOldest(y)

OutranksResult(x, y) ==
    \/ x.score > y.score
    \/ x.score = y.score /\ x.frequency > y.frequency

\* out is the first min(limit, Len(ranked)) elements of ranked.
IsPrefixOfLength(out, ranked, limit) ==
    /\ Len(out) = (IF limit < Len(ranked) THEN limit ELSE Len(ranked))
    /\ \A i \in 1 .. Len(out) : out[i] = ranked[i]

\* C5: at most top patterns and at most maxResults results are returned, each
\* output is the first min(limit, n) elements of the ranked list of the n
\* candidates that passed the filter, and no omitted candidate outranks a
\* returned one.
C5_Cardinality ==
    /\ call = "analyze" =>
           /\ Len(patterns) <= opts.top
           /\ IsPrefixOfLength(patterns, filtered, opts.top)
           /\ \A i \in 1 .. Len(filtered) :
                  filtered[i] \notin Elems(patterns) =>
                      \A j \in 1 .. Len(patterns) : ~OutranksPattern(filtered[i], patterns[j])
    /\ call = "search" =>
           /\ Len(results) <= maxResults
           /\ IsPrefixOfLength(results, scored, maxResults)
           /\ \A i \in 1 .. Len(scored) :
                  scored[i] \notin Elems(results) =>
                      \A j \in 1 .. Len(results) : ~OutranksResult(scored[i], results[j])

\* A call whose ranked list was longer than top and was cut to top >= 1.
C5_Witness ==
    /\ call = "analyze"
    /\ opts.top >= 1
    /\ Len(filtered) > opts.top
    /\ Len(patterns) = opts.top
    /\ filtered[opts.top + 1].frequency < patterns[opts.top].frequency

\* C6: every returned score, a whole number of thousandths, lies in
\* [0.05, 1].
C6_ScoreBounds ==
    call = "search" =>
        \A i \in 1 .. Len(results) : results[i].score >= 50 /\ results[i].score <= 1000

\* A search that returned a command exactly at 0.05 and dropped a command
\* below the threshold.
C6_Witness ==
    /\ call = "search"
    /\ maxResults = DEFAULT_MAX_RESULTS
    /\ Len(results) < Len(commandMap)
    /\ \E i \in 1 .. Len(results) : results[i].score = 50

\* The positions of the entries whose command is c.
Occurrences(c) == {i \in 1 .. Len(entries) : entries[i].command = c}

\* C7: no two results share a command, and each result's frequency,
\* lineNumber and lastUsed are the count, the maximal line number and the
\* latest timestamp of the entries with that command (lastUsed absent iff
\* none of them has a timestamp).
C7_SearchAggregation ==
    call = "search" =>
        /\ \A i, j \in 1 .. Len(results) : i # j => results[i].command # results[j].command
        /\ \A k \in 1 .. Len(results) :
               LET r == results[k]
                   occ == Occurrences(r.command)
                   stamped == {i \in occ : entries[i].timestamp # NoTime}
               IN  /\ r.frequency = Cardinality(occ)
                   /\ \E i \in occ : entries[i].lineNumber = r.lineNumber
                   /\ \A i \in occ : entries[i].lineNumber <= r.lineNumber
                   /\ (r.lastUsed = NoTime) <=> (stamped = {})
                   /\ stamped # {} =>
                          /\ \E i \in stamped : entries[i].timestamp = r.lastUsed
                          /\ \A i \in stamped : entries[i].timestamp <= r.lastUsed

\* A result aggregated from three entries, the latest timestamp on the first
\* of them, an earlier one on the second and none on the third.
C7_Witness ==
    /\ call = "search"
    /\ Len(results) = 1
    /\ results[1].frequency = 3
    /\ results[1].lineNumber = 3
    /\ results[1].lastUsed = LateDay
    /\ entries[1].timestamp = LateDay
    /\ entries[2].timestamp = 0
    /\ entries[3].timestamp = NoTime

\* The queries without a token: empty, whitespace only, punctuation only.
NoTokenQueries == {qEmpty, qBlank, qPunct}

\* C8: a query without a token, or an empty entries list, gives the empty
\* list, and no command is aggregated or scored.
C8_BlankInput ==
    call = "search" /\ (query \in NoTokenQueries \/ entries = <<>>) =>
        /\ results = <<>>
        /\ scored = <<>>
        /\ commandMap = <<>>

\* A punctuation-only query over entries with a timestamp, which would
\* otherwise score by recency.
C8_Witness ==
    /\ call = "search"
    /\ query = qPunct
    /\ Len(entries) = 2
    /\ entries[1].timestamp = LateDay
    /\ results = <<>>

\* All strings of a result: the patterns, then every variation.
RECURSIVE AllStrings(_)
AllStrings(ps) ==
    IF ps = <<>> THEN <<>>
    ELSE <<Head(ps).pattern>> \o Head(ps).variations \o AllStrings(Tail(ps))

\* C9: no string occurs twice among the patterns and variations of a result.
C9_PatternDisjointness ==
    call = "analyze" =>
        LET all == AllStrings(patterns)
        IN  \A i, j \in 1 .. Len(all) : i # j => all[i] # all[j]

\* A result of two clusters, each with a variation.
C9_Witness ==
    /\ call = "analyze"
    /\ Len(patterns) = 2
    /\ patterns[1].variations # <<>>
    /\ patterns[2].variations # <<>>

\* The commands of entries i .. i + w - 1 joined by the separator.
RECURSIVE Joined(_, _)
Joined(i, w) ==
    IF w = 1 THEN entries[i].command
    ELSE Joined(i, w - 1) \o SEP \o entries[i + w - 1].command

\* The windows (size, start) of the call whose joined commands are k.
Windows(k) ==
    {x \in (opts.minSequenceLength .. opts.maxSequenceLength) \X (1 .. Len(entries)) :
        /\ x[2] + x[1] - 1 <= Len(entries)
        /\ Joined(x[2], x[1]) = k}

\* The counted value of key k: its exact occurrences, or for a pure sequence
\* key its matching windows.
CountedValue(k) ==
    IF Occurrences(k) # {} THEN Cardinality(Occurrences(k)) ELSE Cardinality(Windows(k))

RECURSIVE SumCounted(_)
SumCounted(ks) == IF ks = <<>> THEN 0 ELSE CountedValue(Head(ks)) + SumCounted(Tail(ks))

\* C10: a pattern's frequency is the counted value of its pattern plus those
\* of its variations, hence at least the counted value of each of them.
C10_AggregateFrequency ==
    call = "analyze" =>
        \A i \in 1 .. Len(patterns) :
            LET P == patterns[i]
            IN  /\ P.frequency = CountedValue(P.pattern) + SumCounted(P.variations)
                /\ P.frequency >= CountedValue(P.pattern)
                /\ \A j \in 1 .. Len(P.variations) : P.frequency >= CountedValue(P.variations[j])

\* A result holding a cluster of exact commands with counts 2 and 1, and a
\* cluster of sequence keys.
C10_Witness ==
    /\ call = "analyze"
    /\ Len(patterns) = 2
    /\ patterns[1].pattern = cAB
    /\ patterns[1].variations = <<cABC>>
    /\ patterns[1].frequency = 3
    /\ Len(patterns[2].pattern) > Len(SEP)
    /\ patterns[2].variations # <<>>
    /\ patterns[2].frequency = 2

\* The timestamps of the occurrences counted under key k: of the entries equal
\* to k, or for a pure sequence key of the last entry of each matching window.
ContributingTimes(k) ==
    IF Occurrences(k) # {} THEN {entries[i].timestamp : i \in Occurrences(k)}
    ELSE {entries[x[2] + x[1] - 1].timestamp : x \in Windows(k)}

\* The timestamps present among the occurrences behind pattern P.
Stamps(P) ==
    UNION {ContributingTimes(k) : k \in {P.pattern} \cup Elems(P.variations)} \ {NoTime}

\* C11: a returned pattern's lastUsed is the latest timestamp among the
\* occurrences of its representative and of its variations, and is absent
\* exactly when none of them carries a timestamp.
C11_PatternLastUsed ==
    call = "analyze" =>
        \A i \in 1 .. Len(patterns) :
            LET st == Stamps(patterns[i])
            IN  /\ (patterns[i].lastUsed = NoTime) <=> (st = {})
                /\ st # {} =>
                       /\ patterns[i].lastUsed \in st
                       /\ \A ts \in st : ts <= patterns[i].lastUsed

\* A pattern whose representative was used at the epoch and then without a
\* timestamp, and whose variation carries the latest timestamp.
C11_Witness ==
    /\ call = "analyze"
    /\ Len(entries) = 3
    /\ entries[1].command = cAB /\ entries[1].timestamp = LateDay
    /\ entries[2].command = cAB /\ entries[2].timestamp = 0
    /\ entries[3].command = cABC /\ entries[3].timestamp = NoTime
    /\ Len(patterns) >= 1
    /\ patterns[1].pattern = cAB
    /\ patterns[1].variations = <<cABC>>
    /\ patterns[1].lastUsed = LateDay

\* C12: of two direct calls of recencyScore with the same newestTimestamp,
\* the one with the later timestamp returns at least as much; a missing
\* timestamp (which NoTime orders below every day) returns no more than any
\* present one.
C12_RecencyMonotonic ==
    [][(/\ probe.fn = "recencyScore"
        /\ probe'.fn = "recencyScore"
        /\ probe.newestTimestamp = probe'.newestTimestamp
        /\ probe.timestamp <= probe'.timestamp)
       => probe.value <= probe'.value]_vars

\* A call half way through the thirty days, scoring one half.
C12_Witness ==
    /\ probe.fn = "recencyScore"
    /\ probe.newestTimestamp = THIRTY_DAYS
    /\ probe.timestamp = 15
    /\ probe.value * 2 = UNIT

C14_FlagsAbsentSameAsOmitted ==
    call = "analyze" /\ options = FlagsAbsent =>
        patterns = analyzeFrequency(entries, NoOptions)

\* The unmatched query tokens of a direct fuzzyOverlap call, and those of
\* them with a command token within edit distance FUZZY_THRESHOLD.
Unmatched ==
    {i \in 1 .. Len(probe.queryTokens) :
        probe.queryTokens[i] \notin Elems(probe.cmdTokens)}

FuzzyHits ==
    {i \in Unmatched :
        \E j \in 1 .. Len(probe.cmdTokens) :
            Levenshtein(probe.queryTokens[i], probe.cmdTokens[j]) <= FUZZY_THRESHOLD}

\* C15 as stated: fuzzyOverlap is the fraction of the unmatched query tokens
\* that have a command token within distance 2, and 1 when no query token is
\* unmatched.
C15_FuzzyOverUnmatched ==
    probe.fn = "fuzzyOverlap" /\ probe.queryTokens # <<>> =>
        IF Unmatched = {} THEN probe.value = UNIT
        ELSE probe.value * Cardinality(Unmatched) = Cardinality(FuzzyHits) * UNIT

\* C16: with a query token matched exactly and another one not, fuzzyOverlap
\* is the number of unmatched tokens with a command token within distance 2
\* over the number of all query tokens, hence below 1.
C16_FuzzyOverAllTokens ==
    /\ probe.fn = "fuzzyOverlap"
    /\ Unmatched # {}
    /\ Cardinality(Unmatched) < Len(probe.queryTokens)
    => /\ probe.value * Len(probe.queryTokens) = Cardinality(FuzzyHits) * UNIT
       /\ probe.value < UNIT

\* One exact and one fuzzy match out of two query tokens: one half.
C16_Witness ==
    /\ probe.fn = "fuzzyOverlap"
    /\ probe.queryTokens = <<tAB, tC>>
    /\ probe.cmdTokens = <<tAB>>
    /\ FuzzyHits = {2}
    /\ probe.value * 2 = UNIT

\* The rounded combined score, in thousandths, of the i-th unique command of
\* the call.
RoundedScore(i) ==
    roundMilli(scoreOf(query, tokenize(query), commandMap[i],
                       maxFreqUpTo(commandMap, Len(commandMap)),
                       newestUpTo(commandMap, Len(commandMap))))

\* C17 as stated: a unique command is kept, before ranking and truncation,
\* exactly when its rounded score is at least 0.05.
C17_RoundThenThreshold ==
    call = "search" =>
        \A i \in 1 .. Len(commandMap) :
            (\E j \in 1 .. Len(scored) : scored[j].command = commandMap[i].key)
                <=> RoundedScore(i) >= MIN_SCORE * 10

\* The windows (size, start) of the call.
AllWindows ==
    {x \in (opts.minSequenceLength .. opts.maxSequenceLength) \X (1 .. Len(entries)) :
        x[2] + x[1] - 1 <= Len(entries)}

RECURSIVE SumCounts(_)
SumCounts(m) == IF m = <<>> THEN 0 ELSE Head(m).count + SumCounts(Tail(m))

\* C18: sequence detection counts every window of every size from
\* minSequenceLength to maxSequenceLength that fits in entries, once, under
\* the key joining its commands; so each key's count is the number of its
\* windows, and the counts add up to the number of windows that fit.
C18_SlidingWindowCounting ==
    call = "analyze" =>
        /\ \A x \in AllWindows : Joined(x[2], x[1]) \in Keys(sequenceCounts)
        /\ \A k \in Keys(sequenceCounts) :
               /\ Windows(k) # {}
               /\ CountOfKey(sequenceCounts, k) = Cardinality(Windows(k))
        /\ SumCounts(sequenceCounts) = Cardinality(AllWindows)
        /\ \A i, j \in 1 .. Len(sequenceCounts) :
               i # j => sequenceCounts[i].key # sequenceCounts[j].key

\* Three entries with the same command, window sizes 1 and 2: the size-2 key
\* counted twice, the size-1 key three times, and no window of size 3.
C18_Witness ==
    /\ call = "analyze"
    /\ Len(entries) = 3
    /\ entries[1].command = cAB /\ entries[2].command = cAB /\ entries[3].command = cAB
    /\ opts.minSequenceLength = 1
    /\ opts.maxSequenceLength = 2
    /\ Len(sequenceCounts) = 2
    /\ CountOfKey(sequenceCounts, cAB) = 3
    /\ CountOfKey(sequenceCounts, cAB_AB) = 2

LastUsedOfKey(m, k) == m[CHOOSE i \in 1 .. Len(m) : m[i].key = k].lastUsed

\* C19: in the counting structure handed to clustering, every raw command of
\* entries has the number of its entries as count and the latest of their
\* timestamps as lastUsed, whatever sequences were detected.
C19_ExactCountsUnaffected ==
    call = "analyze" =>
        \A i \in 1 .. Len(entries) :
            LET c == entries[i].command
                st == {entries[j].timestamp : j \in Occurrences(c)} \ {NoTime}
            IN  /\ CountOfKey(exactCounts, c) = Cardinality(Occurrences(c))
                /\ (LastUsedOfKey(exactCounts, c) = NoTime) <=> (st = {})
                /\ st # {} =>
                       /\ LastUsedOfKey(exactCounts, c) \in st
                       /\ \A ts \in st : ts <= LastUsedOfKey(exactCounts, c)

\* A raw command equal to the joined key of a window that ends later: the
\* window was counted, and the raw command kept its own count and lastUsed.
C19_Witness ==
    /\ call = "analyze"
    /\ Len(entries) = 3
    /\ entries[1].command = cAB
    /\ entries[2].command = cAB /\ entries[2].timestamp = StaleDay
    /\ entries[3].command = cAB_AB /\ entries[3].timestamp = 0
    /\ cAB_AB \in Keys(sequenceCounts)
    /\ CountOfKey(exactCounts, cAB_AB) = 1
    /\ LastUsedOfKey(exactCounts, cAB_AB) = 0

\* C20: in every cluster the representative's own counted value is at least
\* that of each of its variations.
C20_RepresentativeMostFrequent ==
    call = "analyze" =>
        \A i \in 1 .. Len(grouped) :
            \A j \in 1 .. Len(grouped[i].variations) :
                CountedValue(grouped[i].pattern) >= CountedValue(grouped[i].variations[j])

\* A cluster whose variation was counted first and whose representative was
\* counted twice.
C20_Witness ==
    /\ call = "analyze"
    /\ Len(entries) = 3
    /\ entries[1].command = cABC
    /\ entries[2].command = cAB
    /\ entries[3].command = cAB
    /\ \E i \in 1 .. Len(grouped) :
           /\ grouped[i].pattern = cAB
           /\ grouped[i].variations = <<cABC>>

\* C21: with similarityThreshold >= 0, any two distinct representatives of a
\* call, clustered or returned, are further apart than similarityThreshold
\* in edit distance, and every variation of a cluster is within
\* similarityThreshold of its representative in edit distance and in length.
C21_ClustersSeparated ==
    (call = "analyze" /\ opts.similarityThreshold >= 0) =>
        /\ \A i, j \in 1 .. Len(grouped) :
               i # j => Levenshtein(grouped[i].pattern, grouped[j].pattern)
                            > opts.similarityThreshold
        /\ \A i, j \in 1 .. Len(patterns) :
               i # j => Levenshtein(patterns[i].pattern, patterns[j].pattern)
                            > opts.similarityThreshold
        /\ \A g \in Elems(grouped) \cup Elems(patterns) :
               \A v \in Elems(g.variations) :
                   /\ Levenshtein(g.pattern, v) <= opts.similarityThreshold
                   /\ Abs(Len(g.pattern) - Len(v)) <= opts.similarityThreshold

\* Threshold 1: a returned cluster that absorbed a key at distance 1, beside
\* a returned representative at distance 2 from it.
C21_Witness ==
    /\ call = "analyze"
    /\ opts.similarityThreshold = 1
    /\ \E i, j \in 1 .. Len(patterns) :
           /\ patterns[i].pattern = cAB
           /\ patterns[i].variations = <<cABC>>
           /\ patterns[j].pattern = cAB_C
           /\ Levenshtein(cAB, cAB_C) = 2

\* The five sub-scores of the i-th unique command of the call, as the scoring
\* loop computes them.
MaxFreq == maxFreqUpTo(commandMap, Len(commandMap))

NewestTimestamp == newestUpTo(commandMap, Len(commandMap))

ExactOf(i) == exactOverlap(tokenize(query), tokenize(commandMap[i].key))

FuzzyOf(i) == fuzzyOverlap(tokenize(query), tokenize(commandMap[i].key))

SubstringOf(i) ==
    substringScore(query, commandMap[i].key, tokenize(query), tokenize(commandMap[i].key))

FrequencyOf(i) == frequencyScore(commandMap[i].frequency, MaxFreq)

RecencyOf(i) == recencyScore(commandMap[i].lastUsed, NewestTimestamp)

CombinedOf(i) ==
    combinedScore(ExactOf(i), FuzzyOf(i), SubstringOf(i), FrequencyOf(i), RecencyOf(i))

\* C22: for every unique command scored in a search, each of the five
\* sub-scores lies in [0, 1]: its frequency is at most maxFrequency, its
\* recency score is 1 when its timestamp is at or after newestTimestamp; and
\* the unrounded combined score lies in [0, 1].
C22_SubScoreBounds ==
    call = "search" =>
        \A i \in 1 .. Len(commandMap) :
            /\ ExactOf(i) \in 0 .. UNIT
            /\ FuzzyOf(i) \in 0 .. UNIT
            /\ SubstringOf(i) \in 0 .. UNIT
            /\ commandMap[i].frequency \in 1 .. MaxFreq
            /\ FrequencyOf(i) \in 0 .. UNIT
            /\ RecencyOf(i) \in 0 .. UNIT
            /\ (commandMap[i].lastUsed # NoTime /\ commandMap[i].lastUsed >= NewestTimestamp)
                   => RecencyOf(i) = UNIT
            /\ CombinedOf(i) \in 0 .. 100 * UNIT

\* A search over a command last used 31 days before the newest one, whose
\* recency score is clamped, and a command at the maximal frequency 2.
C22_Witness ==
    /\ call = "search"
    /\ \E i, j \in 1 .. Len(commandMap) :
           /\ commandMap[i].lastUsed # NoTime
           /\ NewestTimestamp - commandMap[i].lastUsed > THIRTY_DAYS
           /\ RecencyOf(i) = 0
           /\ commandMap[j].frequency = 2
           /\ MaxFreq = 2
           /\ FrequencyOf(j) = UNIT

\* The place of command c in the returned list and in the map of unique
\* commands.
PlaceInResults(c) == CHOOSE k \in 1 .. Len(results) : results[k].command = c

PlaceInMap(c) == CHOOSE k \in 1 .. Len(commandMap) : commandMap[k].key = c

Returned(c) == \E k \in 1 .. Len(results) : results[k].command = c

\* Unique commands i and j have equal exact, fuzzy and substring sub-scores.
SameTextScores(i, j) ==
    /\ ExactOf(i) = ExactOf(j)
    /\ FuzzyOf(i) = FuzzyOf(j)
    /\ SubstringOf(i) = SubstringOf(j)

\* Unique command i was last used strictly later than j, the text and
\* frequency sub-scores being equal, and both are returned.
LaterTwin(i, j) ==
    /\ i # j
    /\ SameTextScores(i, j)
    /\ FrequencyOf(i) = FrequencyOf(j)
    /\ commandMap[i].lastUsed # NoTime
    /\ commandMap[j].lastUsed # NoTime
    /\ commandMap[i].lastUsed > commandMap[j].lastUsed
    /\ Returned(commandMap[i].key)
    /\ Returned(commandMap[j].key)

\* C24 as stated: of two returned commands with equal exact, fuzzy,
\* substring and frequency sub-scores, the one last used strictly later comes
\* first.
C24_LaterComesFirst ==
    call = "search" =>
        \A i, j \in 1 .. Len(commandMap) :
            LaterTwin(i, j) =>
                PlaceInResults(commandMap[i].key) < PlaceInResults(commandMap[j].key)

\* C24, amended: of two such commands the later one's returned score is at
\* least the other's, and it comes first when the returned scores differ;
\* when they are equal the two are in the order of their first occurrences.
C24_LaterNotBelow ==
    call = "search" =>
        \A i, j \in 1 .. Len(commandMap) :
            LaterTwin(i, j) =>
                LET a == PlaceInResults(commandMap[i].key)
                    b == PlaceInResults(commandMap[j].key)
                IN  /\ results[a].score >= results[b].score
                    /\ results[a].score > results[b].score => a < b
                    /\ results[a].score = results[b].score => (a < b <=> i < j)

\* Two twins last used 31 and 30 days before the newest command: both recency
\* scores are 0, the returned scores are equal, and the later one, which
\* occurred second, is returned second.
C24_Witness ==
    /\ call = "search"
    /\ \E i, j \in 1 .. Len(commandMap) :
           /\ LaterTwin(i, j)
           /\ j < i
           /\ RecencyOf(i) = 0
           /\ RecencyOf(j) = 0
           /\ results[PlaceInResults(commandMap[i].key)].score
                  = results[PlaceInResults(commandMap[j].key)].score
           /\ PlaceInResults(commandMap[j].key) < PlaceInResults(commandMap[i].key)

\* C23: if two unique commands have equal exact, fuzzy, substring and
\* recency sub-scores and one has the strictly higher frequency, then
\* whenever the less frequent one is returned the more frequent one is
\* returned too, before it.
C23_FrequencyDecides ==
    call = "search" =>
        \A i, j \in 1 .. Len(commandMap) :
            (/\ i # j
             /\ SameTextScores(i, j)
             /\ RecencyOf(i) = RecencyOf(j)
             /\ commandMap[i].frequency > commandMap[j].frequency
             /\ Returned(commandMap[j].key))
                => /\ Returned(commandMap[i].key)
                   /\ PlaceInResults(commandMap[i].key) < PlaceInResults(commandMap[j].key)

\* Query "ab" over "ab c" once and then "ab" twice, both last used on the
\* same day: the two match the query equally, and "ab", second in the map,
\* is returned first with the higher score.
C23_Witness ==
    /\ call = "search"
    /\ query = qAB
    /\ Len(commandMap) = 2
    /\ commandMap[1].key = cAB_C /\ commandMap[1].frequency = 1
    /\ commandMap[2].key = cAB /\ commandMap[2].frequency = 2
    /\ SameTextScores(1, 2)
    /\ commandMap[1].lastUsed = LateDay
    /\ commandMap[2].lastUsed = LateDay
    /\ Len(results) = 2
    /\ results[1].command = cAB
    /\ results[2].command = cAB_C
    /\ results[1].score > results[2].score

\* The place of command c in the scored list, after the sort.
PlaceInScored(c) == CHOOSE k \in 1 .. Len(scored) : scored[k].command = c

\* C25: if every token of a query that has tokens occurs among a command's
\* tokens, the command's exact, fuzzy and substring sub-scores are 1, it is
\* kept with a rounded score of at least 0.9, and it is returned unless its
\* place in the ranking is beyond maxResults.
C25_FullMatchKept ==
    (call = "search" /\ ~IsBlank(query) /\ tokenize(query) # <<>>) =>
        \A i \in 1 .. Len(commandMap) :
            Elems(tokenize(query)) \subseteq Elems(tokenize(commandMap[i].key)) =>
                /\ ExactOf(i) = UNIT
                /\ FuzzyOf(i) = UNIT
                /\ SubstringOf(i) = UNIT
                /\ \E k \in 1 .. Len(scored) :
                       /\ scored[k].command = commandMap[i].key
                       /\ scored[k].score >= 900
                /\ \/ Returned(commandMap[i].key)
                   \/ PlaceInScored(commandMap[i].key) > maxResults
                /\ Returned(commandMap[i].key) =>
                       results[PlaceInResults(commandMap[i].key)].score >= 900

\* Query "c ab" over a history with "ab c": the tokens match in another
\* order, the command does not contain the query, and it is returned with a
\* score of at least 0.9.
C25_Witness ==
    /\ call = "search"
    /\ query = qC_AB
    /\ \E i \in 1 .. Len(commandMap) :
           /\ commandMap[i].key = cAB_C
           /\ ~includes(toLowerCase(cAB_C), toLowerCase(query))
           /\ SubstringOf(i) = UNIT
    /\ \E k \in 1 .. Len(results) :
           /\ results[k].command = cAB_C
           /\ results[k].score >= 900

\* Unique command i has nothing in common with the query.
Unrelated(i) == ExactOf(i) = 0 /\ FuzzyOf(i) = 0 /\ SubstringOf(i) = 0

\* C26: a command whose exact, fuzzy and substring sub-scores are all 0 has a
\* combined score of at most 0.10, and is kept or returned only if its
\* frequency and recency sub-scores add up to at least 1.
C26_UnrelatedScoreLow ==
    call = "search" =>
        \A i \in 1 .. Len(commandMap) :
            Unrelated(i) =>
                /\ CombinedOf(i) <= 10 * UNIT
                /\ \A k \in 1 .. Len(scored) :
                       scored[k].command = commandMap[i].key =>
                           /\ scored[k].score <= 100
                           /\ FrequencyOf(i) + RecencyOf(i) >= UNIT
                /\ Returned(commandMap[i].key) =>
                       FrequencyOf(i) + RecencyOf(i) >= UNIT

\* Query "xyz": an unrelated command at the maximal frequency and the newest
\* timestamp is returned with score 0.1, and an unrelated command whose two
\* sub-scores add up to less than 1 is not, there being room for it.
C26_Witness ==
    /\ call = "search"
    /\ query = qXYZ
    /\ maxResults = DEFAULT_MAX_RESULTS
    /\ \E i, j \in 1 .. Len(commandMap) :
           /\ Unrelated(i)
           /\ Returned(commandMap[i].key)
           /\ results[PlaceInResults(commandMap[i].key)].score = 100
           /\ Unrelated(j)
           /\ FrequencyOf(j) > 0
           /\ FrequencyOf(j) + RecencyOf(j) < UNIT
           /\ ~Returned(commandMap[j].key)

\* C27: recencyScore is 0 for an absent timestamp, 1 for a timestamp at or
\* after newestTimestamp, 0 for an age of thirty days or more, and
\* 1 - age / 30 days, strictly between 0 and 1, for an age strictly between
\* 0 and thirty days.
C27_RecencyBoundaries ==
    probe.fn = "recencyScore" =>
        LET age == probe.newestTimestamp - probe.timestamp
        IN  /\ probe.timestamp = NoTime => probe.value = 0
            /\ (probe.timestamp # NoTime /\ age <= 0) => probe.value = UNIT
            /\ (probe.timestamp # NoTime /\ age >= THIRTY_DAYS) => probe.value = 0
            /\ (probe.timestamp # NoTime /\ age > 0 /\ age < THIRTY_DAYS) =>
                   /\ probe.value > 0
                   /\ probe.value < UNIT
                   /\ probe.value * THIRTY_DAYS = UNIT * (THIRTY_DAYS - age)

\* The call at the boundary: a timestamp exactly thirty days before the
\* newest one scores 0.
C27_Witness ==
    /\ probe.fn = "recencyScore"
    /\ probe.timestamp # NoTime
    /\ probe.newestTimestamp - probe.timestamp = THIRTY_DAYS
    /\ probe.value = 0

\* The maximal runs <<first, last>> of non-separator characters of s.
Runs(s) ==
    {r \in (1 .. Len(s)) \X (1 .. Len(s)) :
        /\ r[1] <= r[2]
        /\ \A k \in r[1] .. r[2] : s[k] \notin Separators
        /\ r[1] = 1 \/ s[r[1] - 1] \in Separators
        /\ r[2] = Len(s) \/ s[r[2] + 1] \in Separators}

\* The lower-case form of an ASCII letter, and the character itself
\* otherwise.
LowerOf(ch) ==
    IF \E k \in 1 .. 26 : Upper[k] = ch
    THEN Lower[CHOOSE k \in 1 .. 26 : Upper[k] = ch]
    ELSE ch

RECURSIVE JoinBySpace(_)
JoinBySpace(toks) ==
    IF toks = <<>> THEN <<>>
    ELSE IF Len(toks) = 1 THEN toks[1]
    ELSE toks[1] \o <<" ">> \o JoinBySpace(Tail(toks))

RunStarts(es) == {i \in 1 .. Len(es) : i = 1 \/ es[i].command # es[i - 1].command}

NoAdjacentEqual(es) == \A i \in 1 .. Len(es) - 1 : es[i].command # es[i + 1].command

\* C29: deduplicateConsecutive returns, in order, exactly the first entry of
\* each maximal run of adjacent entries with equal command: its output has
\* no two adjacent equal commands, keeps one entry per run however often a
\* command recurs, leaves the input as it was, and is unchanged by a second
\* application; and the output of parseBashHistory, which filters noise
\* before deduplicating, has no two adjacent equal commands.
C29_ConsecutiveDuplicates ==
    /\ probe.fn = "deduplicateConsecutive" =>
           LET starts == RunStarts(probe.input)
           IN  /\ Len(probe.value) = Cardinality(starts)
               /\ \A k \in 1 .. Len(probe.value) :
                      \E i \in starts :
                          /\ Cardinality({j \in starts : j < i}) = k - 1
                          /\ probe.value[k] = probe.input[i]
               /\ NoAdjacentEqual(probe.value)
               /\ \A i \in starts : probe.input[i] \in Elems(probe.value)
               /\ entries = probe.input
               /\ deduplicateConsecutive(probe.value) = probe.value
    /\ probe.fn = "parseBashHistory" =>
           /\ NoAdjacentEqual(probe.value)
           /\ \A k \in 1 .. Len(probe.value) : ~isNoiseCommand(probe.value[k].command)
           /\ entries = probe.input

\* deduplicateConsecutive of ab, ab, abc, ab: the entries of lines 1, 3 and 4,
\* the command ab kept twice.
C29_Witness ==
    /\ probe.fn = "deduplicateConsecutive"
    /\ Len(probe.input) = 4
    /\ probe.input[1].command = cAB
    /\ probe.input[2].command = cAB
    /\ probe.input[3].command = cABC
    /\ probe.input[4].command = cAB
    /\ Len(probe.value) = 3
    /\ probe.value[1].lineNumber = 1
    /\ probe.value[2].lineNumber = 3
    /\ probe.value[3].lineNumber = 4

\* The raw commands of entries.
RawCommands == {entries[i].command : i \in 1 .. Len(entries)}

\* C30: a call with minSequenceLength >= 1 and maxSequenceLength below it
\* completes, counts no sequence key, and returns what exact counting,
\* clustering, filtering, ranking and truncation give; and a call on empty
\* entries returns the empty list whatever the options.
C30_InvertedSequenceRange ==
    call = "analyze" =>
        /\ (opts.minSequenceLength >= 1 /\ opts.maxSequenceLength < opts.minSequenceLength) =>
               /\ sequenceCounts = <<>>
               /\ Keys(exactCounts) = RawCommands
               /\ \A c \in RawCommands :
                      CountOfKey(exactCounts, c) = Cardinality(Occurrences(c))
               /\ \A i \in 1 .. Len(grouped) :
                      /\ grouped[i].pattern \in RawCommands
                      /\ Elems(grouped[i].variations) \subseteq RawCommands
               /\ patterns =
                      SliceTo(rankPatterns(filterPatterns(
                                  groupSimilarCommands(countExactCommands(entries),
                                                       opts.similarityThreshold),
                                  opts.minFrequency)),
                              opts.top)
        /\ entries = <<>> => patterns = <<>>

\* A completed call with the range 2..1 on three entries: no sequence key,
\* and a pattern returned.
C30_Witness ==
    /\ call = "analyze"
    /\ opts.minSequenceLength = 2
    /\ opts.maxSequenceLength = 1
    /\ Len(entries) = 3
    /\ sequenceCounts = <<>>
    /\ Len(patterns) > 0
    /\ patterns[1].frequency = 3

====
